---- MODULE Spec2Model ----
(***************************************************************************)
(* A model of webparse (src/__init__.py): the preamble dispatcher on the   *)
(* byte buffer, the token-stream walker with its per-element extractors,   *)
(* and the JSON-LD reconciliation pass.                                    *)
(*                                                                         *)
(* Python values are modelled as follows.                                  *)
(*   dict   a function whose DOMAIN is the set of keys present             *)
(*   list   a sequence                                                     *)
(*   str    a string; None (in a str position) is the reserved string None *)
(*   bytes  a sequence of integers 0..255                                  *)
(* A function that can raise returns a record whose field exc names the    *)
(* exception class ("none" when it returns normally).                      *)
(***************************************************************************)
EXTENDS Integers, Sequences, FiniteSets, TLC

VARIABLES
    buffer,      \* parse_bytes: the input byte buffer
    tokens,      \* strparse_html: parser.tokens, the tokenizer's output for the document
    start,       \* tokenparse_html: data.start, the token cursor (data.end = Len(tokens))
    info,        \* the result record under construction
    pc,          \* where the parse is: "parse_bytes", "tokenparse_html", "returned", "aborted"
    exc,         \* the exception that aborted the parse, "none" otherwise
    dispatched,  \* history: the cursor positions tokenparse_html_toplevel was called at and returned from
    args,        \* inputs of the functions exercised on their own
    ret          \* their results

vars == <<buffer, tokens, start, info, pc, exc, dispatched, args, ret>>

----------------------------------------------------------------------------
(* Python values *)

None == "None"

\* attr_seq is None for every token that is not a start token: a value no
\* sequence of (name, value) pairs equals
NoAttrs == <<<<"None">>>>

\* peekchar() returning None at the end of the buffer
NoByte == -1

EmptyDict == << >>

EmptyList == << >>

Has(d, k) == k \in DOMAIN d

Put(d, k, v) == [x \in (DOMAIN d) \cup {k} |-> IF x = k THEN v ELSE d[x]]

\* d.get(k, default)
Get(d, k, default) == IF k \in DOMAIN d THEN d[k] ELSE default

Min(a, b) == IF a < b THEN a ELSE b

\* buffer[a:b] with 0 <= a (Python clamps the slice to the buffer)
Slice(buf, a, b) == SubSeq(buf, a + 1, Min(b, Len(buf)))

get_object(data, name) == IF name \in DOMAIN data THEN data[name] ELSE EmptyDict

append_object(data, name, item) == Put(data, name, Append(Get(data, name, EmptyList), item))

\* append_object(get_object(info, outer), name, item)
append_in(data, outer, name, item) == Put(data, outer, append_object(get_object(data, outer), name, item))

\* get_object(info, outer)[name] = value
set_in(data, outer, name, value) == Put(data, outer, Put(get_object(data, outer), name, value))

----------------------------------------------------------------------------
(* Byte cursor: ParseState(buffer, start, end) *)

ParseState(buf, s, e) == [buffer |-> buf, start |-> s, end |-> e]

\* bytes.lower(): ASCII upper-case letters only
LowerByte(b) == IF b >= 65 /\ b <= 90 THEN b + 32 ELSE b

Lower(bs) == [i \in 1..Len(bs) |-> LowerByte(bs[i])]

startswith(data, expected) == Slice(data.buffer, data.start, data.start + Len(expected)) = expected

\* startswithnc comparing only as many bytes as the buffer has left
startswithnc_available(data, expected) ==
    Lower(Slice(data.buffer, data.start, data.start + Len(expected)))
        = SubSeq(expected, 1, Min(Len(expected), data.end - data.start))

startswithnc(data, expected) == Lower(Slice(data.buffer, data.start, data.start + Len(expected))) = expected

peekchar(data) == IF data.start < data.end THEN data.buffer[data.start + 1] ELSE NoByte

skipchar(data) ==
    IF data.start < data.end
    THEN [exc |-> "none", data |-> [data EXCEPT !.start = data.start + 1]]
    ELSE [exc |-> "UnexpectedEndOfFileError", data |-> data]

parse_expectnc(data, expected) ==
    IF ~startswithnc(data, expected)
    THEN [exc |-> "UnexpectedDataError", data |-> data]
    ELSE [exc |-> "none", data |-> [data EXCEPT !.start = data.start + Len(expected)]]

\* parse_expect that advances without comparing
parse_expect_any(data, expected) ==
    [exc |-> "none", data |-> [data EXCEPT !.start = Min(data.start + Len(expected), data.end)]]

\* lines 148-151
parse_expect(data, expected) ==
    IF ~startswith(data, expected)
    THEN [exc |-> "UnexpectedDataError", data |-> data]
    ELSE [exc |-> "none", data |-> [data EXCEPT !.start = data.start + Len(expected)]]

AsciiWhitespace == {9, 10, 12, 13, 32}

RECURSIVE SkipWhitespace(_)
\* while data.peekchar() in (9, 10, 12, 13, 32): data = data.skipchar()
SkipWhitespace(data) ==
    IF peekchar(data) \in AsciiWhitespace
    THEN SkipWhitespace(skipchar(data).data)
    ELSE data

parse_ascii_whitespace(data) ==
    IF peekchar(data) \notin AsciiWhitespace
    THEN [exc |-> "UnexpectedDataError", data |-> data]
    ELSE [exc |-> "none", data |-> SkipWhitespace(skipchar(data).data)]

\* bytes(...).decode('utf8', errors='surrogateescape') on ASCII bytes and on the
\* byte 255, which no UTF-8 sequence contains: it becomes the surrogate U+DCFF
DecodeByte(b) == IF b < 128 THEN b ELSE 56320 + b

decode(bs) == [i \in 1..Len(bs) |-> DecodeByte(bs[i])]

\* str.lower() on the decoded code points of the model's alphabet
LowerStr(cs) == [i \in 1..Len(cs) |-> IF cs[i] >= 65 /\ cs[i] <= 90 THEN cs[i] + 32 ELSE cs[i]]

DoctypeLiteral == <<60, 33, 100, 111, 99, 116, 121, 112, 101>>

HtmlName == <<104, 116, 109, 108>>

RECURSIVE ReadTypename(_, _)
\* while data.peekchar() not in (9, 10, 12, 13, 32, 62): typename.append(...); data = data.skipchar()
ReadTypename(data, typename) ==
    IF peekchar(data) \notin (AsciiWhitespace \cup {62})
    THEN IF skipchar(data).exc # "none"
         THEN [exc |-> skipchar(data).exc, data |-> data, typename |-> Append(typename, peekchar(data))]
         ELSE ReadTypename(skipchar(data).data, Append(typename, peekchar(data)))
    ELSE [exc |-> "none", data |-> data, typename |-> typename]

parse_sgml_doctype(data, inf) ==
    LET r1 == parse_expectnc(data, DoctypeLiteral)
        r2 == parse_ascii_whitespace(r1.data)
        first == peekchar(r2.data)
        r3 == skipchar(r2.data)
        r4 == ReadTypename(r3.data, <<first>>)
        inf4 == Put(inf, "document_type_name", decode(r4.typename))
        r5 == parse_expect(r4.data, <<62>>)
    IN  IF r1.exc # "none" THEN [exc |-> r1.exc, data |-> data, info |-> inf]
        ELSE IF r2.exc # "none" THEN [exc |-> r2.exc, data |-> r1.data, info |-> inf]
        ELSE IF first \in (AsciiWhitespace \cup {62})
             THEN [exc |-> "UnexpectedDataError", data |-> r2.data, info |-> inf]
        ELSE IF r3.exc # "none" THEN [exc |-> r3.exc, data |-> r2.data, info |-> inf]
        ELSE IF r4.exc # "none" THEN [exc |-> r4.exc, data |-> r4.data, info |-> inf]
        ELSE IF r5.exc # "none" THEN [exc |-> r5.exc, data |-> r4.data, info |-> inf4]
        ELSE [exc |-> "none", data |-> r5.data, info |-> inf4]

\* parse_unknown up to the call of parse_html: html tells whether the HTML path is taken
parse_unknown(data, inf) ==
    IF startswithnc(data, DoctypeLiteral)
    THEN LET r == parse_sgml_doctype(data, inf)
         IN  IF r.exc # "none" THEN [exc |-> r.exc, html |-> FALSE, data |-> r.data, info |-> r.info]
             ELSE IF LowerStr(r.info["document_type_name"]) = HtmlName
                  THEN [exc |-> "none", html |-> TRUE, data |-> [data EXCEPT !.start = data.end], info |-> r.info]
                  ELSE [exc |-> "none", html |-> FALSE, data |-> r.data, info |-> r.info]
    ELSE [exc |-> "UnrecognizedPreambleError", html |-> FALSE, data |-> data, info |-> inf]

----------------------------------------------------------------------------
(* Exception classes (lines 11-24) *)

\* except ParseError: the class and its subclasses
IsParseError(e) ==
    e \in {"ParseError", "UnrecognizedDataError", "UnrecognizedPreambleError",
           "UnexpectedDataError", "UnexpectedEndOfFileError"}

\* except UnrecognizedDataError
IsUnrecognizedDataError(e) == e \in {"UnrecognizedDataError", "UnrecognizedPreambleError"}

\* traceback.format_exception returning the formatted lines of the exception
format_exception_lines == [exc |-> "none", value |-> "traceback"]

\* traceback.format_exception() called without its required argument: a TypeError
format_exception == [exc |-> "TypeError", value |-> None]

----------------------------------------------------------------------------
(* Strings whose characters matter: str.isspace, str.strip, str.endswith *)

\* the characters of the strings of the model; any other string is one opaque
\* non-whitespace character
Chars(s) ==
    CASE s = "" -> << >>
      [] s = " " -> <<" ">>
      [] s = " Hi " -> <<" ", "H", "i", " ">>
      [] s = "Hi" -> <<"H", "i">>
      [] s = "application/ld+json" -> <<"application/ld", "+", "j", "s", "o", "n">>
      [] s = "application/manifest+json" -> <<"application/manifest", "+", "j", "s", "o", "n">>
      [] s = "+json" -> <<"+", "j", "s", "o", "n">>
      [] OTHER -> <<s>>

Strings == {"", " ", " Hi ", "Hi", "application/ld+json", "application/manifest+json", "+json"}

\* the string with the given characters
Str(cs) == IF Len(cs) = 1 /\ \A s \in Strings : Chars(s) # cs THEN cs[1] ELSE CHOOSE s \in Strings : Chars(s) = cs

IsSpaceChar(c) == c \in {" ", "\t", "\n", "\r"}

\* str.isspace(): at least one character and all of them whitespace
isspace(s) == Len(Chars(s)) > 0 /\ \A i \in 1..Len(Chars(s)) : IsSpaceChar(Chars(s)[i])

RECURSIVE LStrip(_)
LStrip(cs) == IF Len(cs) > 0 /\ IsSpaceChar(cs[1]) THEN LStrip(Tail(cs)) ELSE cs

RECURSIVE RStrip(_)
RStrip(cs) == IF Len(cs) > 0 /\ IsSpaceChar(cs[Len(cs)]) THEN RStrip(SubSeq(cs, 1, Len(cs) - 1)) ELSE cs

\* str.strip()
strip(s) == Str(RStrip(LStrip(Chars(s))))

\* str.endswith(suffix)
endswith(s, suffix) ==
    LET cs == Chars(s)
        suf == Chars(suffix)
    IN  Len(cs) >= Len(suf) /\ SubSeq(cs, Len(cs) - Len(suf) + 1, Len(cs)) = suf

----------------------------------------------------------------------------
(* Tokens: SgmlToken(kind, tag, attr_seq, data), and the token cursor *)

SgmlToken(kind, tag, attr_seq, data) == [kind |-> kind, tag |-> tag, attr_seq |-> attr_seq, data |-> data]

RECURSIVE dict(_)
\* dict(attr_seq): the last value of a repeated name wins
dict(attr_seq) ==
    IF Len(attr_seq) = 0 THEN EmptyDict
    ELSE Put(dict(SubSeq(attr_seq, 1, Len(attr_seq) - 1)), attr_seq[Len(attr_seq)][1], attr_seq[Len(attr_seq)][2])

\* token.attrs
attrs(token) == IF token.attr_seq = NoAttrs THEN NoAttrs ELSE dict(token.attr_seq)

\* peektoken() returning None at the end of the token sequence
NoToken == [None |-> TRUE]

TokenParseState(buf, s, e) == [buffer |-> buf, start |-> s, end |-> e]

peektoken(data) == IF data.start < data.end THEN data.buffer[data.start + 1] ELSE NoToken

\* skiptoken without the test of the end
skiptoken_unchecked(data) == [exc |-> "none", data |-> [data EXCEPT !.start = data.start + 1]]

\* lines 138-141
skiptoken(data) ==
    IF data.start < data.end
    THEN [exc |-> "none", data |-> [data EXCEPT !.start = data.start + 1]]
    ELSE [exc |-> "UnexpectedEndOfFileError", data |-> data]

\* the value of a walker function: the exception raised ("none": it returned), the
\* cursor and the result record as the function left them
Result(e, data, inf) == [exc |-> e, data |-> data, info |-> inf]

RECURSIVE PartitionAttrs(_, _, _)
\* for attr, value in open_token.attr_seq: a named slot, or the overflow list 'attrs'
PartitionAttrs(attr_seq, named, acc) ==
    IF Len(attr_seq) = 0 THEN acc
    ELSE LET attr == attr_seq[1][1]
             value == attr_seq[1][2]
         IN  PartitionAttrs(Tail(attr_seq), named,
                 IF attr \in named THEN Put(acc, attr, value)
                 ELSE append_object(acc, "attrs", <<attr, value>>))

----------------------------------------------------------------------------
(* <title> *)

\* tokenparse_html_title storing the data as it is
tokenparse_html_title_raw(data, inf) ==
    LET d1 == skiptoken(data)
        content_token == peektoken(d1.data)
        d2 == skiptoken(d1.data)
        close_token == peektoken(d2.data)
        d3 == skiptoken(d2.data)
    IN  IF d1.exc # "none" THEN Result(d1.exc, data, inf)
        ELSE IF content_token = NoToken THEN Result("AttributeError", d1.data, inf)
        ELSE IF content_token.kind # "data" THEN Result("UnexpectedDataError", d1.data, inf)
        ELSE IF close_token = NoToken THEN Result("AttributeError", d2.data, inf)
        ELSE IF close_token.kind # "end" \/ close_token.tag # "title"
             THEN Result("UnexpectedDataError", d2.data, inf)
        ELSE Result("none", d3.data, set_in(inf, "html", "title", content_token.data))

\* lines 186-201
tokenparse_html_title(data, inf) ==
    LET d1 == skiptoken(data)
        content_token == peektoken(d1.data)
        d2 == skiptoken(d1.data)
        close_token == peektoken(d2.data)
        d3 == skiptoken(d2.data)
    IN  IF d1.exc # "none" THEN Result(d1.exc, data, inf)
        ELSE IF content_token = NoToken THEN Result("AttributeError", d1.data, inf)
        ELSE IF content_token.kind # "data" THEN Result("UnexpectedDataError", d1.data, inf)
        ELSE IF close_token = NoToken THEN Result("AttributeError", d2.data, inf)
        ELSE IF close_token.kind # "end" \/ close_token.tag # "title"
             THEN Result("UnexpectedDataError", d2.data, inf)
        ELSE Result("none", d3.data, set_in(inf, "html", "title", strip(content_token.data)))

----------------------------------------------------------------------------
(* JSON: a decoded value carries its Python type, [t |-> type, v |-> value], where *)
(* the code tests it with isinstance; the entries of an author list and a          *)
(* publisher are plain dicts of strings and lists of strings                       *)

JStr(s) == [t |-> "str", v |-> s]

JList(l) == [t |-> "list", v |-> l]

JDict(d) == [t |-> "dict", v |-> d]

JInt(n) == [t |-> "int", v |-> n]

AuthorAnn == [name |-> "Ann", sameAs |-> <<"u1">>]

AuthorAnnB == [name |-> "Ann B", sameAs |-> <<"u1", "u2">>, url |-> "u3"]

Publisher == [name |-> "Pub", url |-> "p"]

NodeArticle ==
    ("@type" :> JList(<<"Article">>)) @@
    [headline |-> JStr("H"), datePublished |-> JStr("D1"), dateModified |-> JStr("D2"),
     description |-> JStr("ld description"), author |-> JList(<<AuthorAnn, AuthorAnnB>>),
     publisher |-> JDict(Publisher)]

NodePerson == ("@type" :> JStr("Person")) @@ [headline |-> JInt(7), name |-> JStr("Ann")]

\* json.loads(content) on the script payloads of the model; any other text is not JSON
json_loads(content) ==
    CASE content = "[A]" -> [exc |-> "none", value |-> JList(<<NodeArticle>>)]
      [] content = "[P]" -> [exc |-> "none", value |-> JList(<<NodePerson>>)]
      [] content = "[A,P]" -> [exc |-> "none", value |-> JList(<<NodeArticle, NodePerson>>)]
      [] content = "[]" -> [exc |-> "none", value |-> JList(<< >>)]
      [] content = "7" -> [exc |-> "none", value |-> JInt(7)]
      [] OTHER -> [exc |-> "JSONDecodeError", value |-> None]

----------------------------------------------------------------------------
(* <script> and <style> *)

script_attrs(attr_seq) == PartitionAttrs(attr_seq, {"type", "src"}, EmptyDict)

\* record_script that lists an ld+json script in html.scripts as well
record_script_both(script, data, inf) ==
    IF Get(script, "type", "") = None THEN Result("AttributeError", data, inf)
    ELSE IF endswith(Get(script, "type", ""), "+json") /\ Has(script, "content")
    THEN LET j == json_loads(script["content"])
             with_json == Put(script, "json", j.value)
             inf1 == IF Has(inf, "json_ld") THEN inf ELSE Put(inf, "json_ld", EmptyList)
         IN  IF j.exc # "none" THEN Result(j.exc, data, inf)
             ELSE IF script["type"] = "application/ld+json"
                  THEN IF j.value.t # "list" THEN Result("TypeError", data, inf1)
                       ELSE Result("none", data,
                                   append_in(Put(inf1, "json_ld", inf1["json_ld"] \o j.value.v),
                                             "html", "scripts", with_json))
                  ELSE Result("none", data, append_in(inf, "html", "scripts", with_json))
    ELSE Result("none", data, append_in(inf, "html", "scripts", script))

\* lines 232-243: the script is complete, data is past its closing tag
record_script(script, data, inf) ==
    IF Get(script, "type", "") = None THEN Result("AttributeError", data, inf)
    ELSE IF endswith(Get(script, "type", ""), "+json") /\ Has(script, "content")
    THEN LET j == json_loads(script["content"])
             with_json == Put(script, "json", j.value)
             inf1 == IF Has(inf, "json_ld") THEN inf ELSE Put(inf, "json_ld", EmptyList)
         IN  IF j.exc # "none" THEN Result(j.exc, data, inf)
             ELSE IF script["type"] = "application/ld+json"
                  THEN IF j.value.t # "list" THEN Result("TypeError", data, inf1)
                       ELSE Result("none", data, Put(inf1, "json_ld", inf1["json_ld"] \o j.value.v))
                  ELSE Result("none", data, append_in(inf, "html", "scripts", with_json))
    ELSE Result("none", data, append_in(inf, "html", "scripts", script))

tokenparse_html_script(data, inf) ==
    LET open_token == peektoken(data)
        d1 == skiptoken(data)
        script == script_attrs(open_token.attr_seq)
        next_token == peektoken(d1.data)
        d2 == skiptoken(d1.data)
        close_token == peektoken(d2.data)
        d3 == skiptoken(d2.data)
    IN  IF d1.exc # "none" THEN Result(d1.exc, data, inf)
        ELSE IF next_token = NoToken THEN Result("AttributeError", d1.data, inf)
        ELSE IF next_token.kind = "data"
             THEN IF close_token = NoToken THEN Result("AttributeError", d2.data, inf)
                  ELSE IF close_token.kind # "end" \/ close_token.tag # "script"
                       THEN Result("ParseError", d2.data, inf)
                  ELSE record_script(Put(script, "content", next_token.data), d3.data, inf)
        ELSE IF next_token.kind # "end" \/ next_token.tag # "script"
             THEN Result("ParseError", d1.data, inf)
        ELSE record_script(script, d2.data, inf)

style_attrs(attr_seq) == PartitionAttrs(attr_seq, {"blocking", "media", "nonce", "title", "type"}, EmptyDict)

tokenparse_html_style(data, inf) ==
    LET open_token == peektoken(data)
        d1 == skiptoken(data)
        style == style_attrs(open_token.attr_seq)
        next_token == peektoken(d1.data)
        d2 == skiptoken(d1.data)
        close_token == peektoken(d2.data)
        d3 == skiptoken(d2.data)
    IN  IF d1.exc # "none" THEN Result(d1.exc, data, inf)
        ELSE IF d2.exc # "none" THEN Result(d2.exc, d1.data, inf)
        ELSE IF next_token.kind # "data" THEN Result("ParseError", d2.data, inf)
        ELSE IF close_token = NoToken THEN Result("AttributeError", d2.data, inf)
        ELSE IF close_token.kind # "end" \/ close_token.tag # "style"
             THEN Result("ParseError", d2.data, inf)
        ELSE Result("none", d3.data,
                    append_in(inf, "html", "styles", Put(style, "content", next_token.data)))

----------------------------------------------------------------------------
(* Content: <noscript> and its content list *)

RECURSIVE tokenparse_html_contentlist(_, _, _)
RECURSIVE ContentListLoop(_, _, _, _)
RECURSIVE tokenparse_html_content(_, _)

\* the value of a content function: Result and the content node or list
ContentResult(e, data, inf, content) == [exc |-> e, data |-> data, info |-> inf, content |-> content]

\* {'kind': token.kind, 'tag': token.tag, 'attrs': token.attr_seq, 'data': token.data}
token_record(token) == [kind |-> token.kind, tag |-> token.tag, attrs |-> token.attr_seq, data |-> token.data]

tokenparse_html_content(data, inf) ==
    LET token == peektoken(data)
        d1 == skiptoken(data)
        result == IF token.attr_seq # NoAttrs /\ Len(token.attr_seq) > 0
                  THEN [kind |-> "noscript", attrs |-> token.attr_seq]
                  ELSE [kind |-> "noscript"]
        list == tokenparse_html_contentlist(d1.data, inf, "noscript")
    IN  IF token = NoToken THEN ContentResult("AttributeError", data, inf, None)
        ELSE IF token.kind = "start" /\ token.tag = "noscript"
             THEN IF d1.exc # "none" THEN ContentResult(d1.exc, data, inf, None)
                  ELSE IF list.exc # "none" THEN ContentResult(list.exc, list.data, list.info, None)
                  ELSE ContentResult("none", list.data, list.info, Put(result, "contents", list.content))
        ELSE ContentResult("UnrecognizedDataError", data, inf, None)

\* the loop skipping the tokens it does not recognize without keeping them
ContentListLoop_skip(data, inf, closingtag, result) ==
    LET token == peektoken(data)
        c == tokenparse_html_content(data, inf)
        d1 == skiptoken(data)
    IN  IF token = NoToken THEN ContentResult("AttributeError", data, inf, result)
        ELSE IF token.kind # "end" \/ token.tag # closingtag
             THEN IF c.exc = "none"
                  THEN ContentListLoop(c.data, c.info, closingtag, Append(result, c.content))
                  ELSE IF IsUnrecognizedDataError(c.exc)
                  THEN ContentListLoop(d1.data, c.info, closingtag, result)
                  ELSE ContentResult(c.exc, c.data, c.info, result)
        ELSE ContentResult("none", d1.data, inf, result)

\* the while loop of tokenparse_html_contentlist and the skip of the closing tag
ContentListLoop(data, inf, closingtag, result) ==
    LET token == peektoken(data)
        c == tokenparse_html_content(data, inf)
        d1 == skiptoken(data)
        fe == format_exception
    IN  IF token = NoToken THEN ContentResult("AttributeError", data, inf, result)
        ELSE IF token.kind # "end" \/ token.tag # closingtag
             THEN IF c.exc = "none"
                  THEN ContentListLoop(c.data, c.info, closingtag, Append(result, c.content))
                  ELSE IF IsUnrecognizedDataError(c.exc)
                  THEN IF d1.exc # "none" THEN ContentResult(d1.exc, data, c.info, result)
                       ELSE ContentListLoop(d1.data, c.info, closingtag, Append(result, token_record(token)))
                  ELSE IF IsParseError(c.exc)
                  THEN IF fe.exc # "none" THEN ContentResult(fe.exc, data, c.info, result)
                       ELSE IF d1.exc # "none"
                            THEN ContentResult(d1.exc, data, append_object(c.info, "errors", fe.value), result)
                       ELSE ContentListLoop(d1.data, append_object(c.info, "errors", fe.value), closingtag, result)
                  ELSE ContentResult(c.exc, c.data, c.info, result)
        ELSE IF d1.exc # "none" THEN ContentResult(d1.exc, data, inf, result)
        ELSE ContentResult("none", d1.data, inf, result)

tokenparse_html_contentlist(data, inf, closingtag) == ContentListLoop(data, inf, closingtag, EmptyList)

----------------------------------------------------------------------------
(* Identity matching and the reconciliation of JSON-LD *)

Range(l) == {l[i] : i \in 1..Len(l)}

\* ([obj['url']] if 'url' in obj else []) + (obj.get('sameAs') or [])
UrlsOf(obj) == (IF Has(obj, "url") THEN {obj["url"]} ELSE {}) \cup Range(Get(obj, "sameAs", EmptyList))

object_matches(obj, ld) ==
    IF Get(obj, "name", None) = Get(ld, "name", None) THEN TRUE
    ELSE IF UrlsOf(obj) \cap UrlsOf(ld) # {} THEN TRUE
    ELSE FALSE

RECURSIVE AppendMissing(_, _)
\* for url in val: if url not in orig_author['sameAs']: orig_author['sameAs'].append(url)
AppendMissing(list, val) ==
    IF Len(val) = 0 THEN list
    ELSE AppendMissing(IF val[1] \in Range(list) THEN list ELSE Append(list, val[1]), Tail(val))

\* for key, val in author.items(): the sameAs lists are united, every other key is overwritten
MergeAuthor(orig_author, author) ==
    [key \in (DOMAIN orig_author) \cup (DOMAIN author) |->
        IF key \notin DOMAIN author THEN orig_author[key]
        ELSE IF key = "sameAs" /\ Has(orig_author, "sameAs")
             THEN AppendMissing(orig_author["sameAs"], author["sameAs"])
        ELSE author[key]]

\* the index of the first entity of the list that matches, Len(list) + 1 when none does
FirstMatch(list, candidate) ==
    IF \E i \in 1..Len(list) : object_matches(list[i], candidate)
    THEN CHOOSE i \in 1..Len(list) :
             /\ object_matches(list[i], candidate)
             /\ \A j \in 1..(i - 1) : ~object_matches(list[j], candidate)
    ELSE Len(list) + 1

\* list with its entry at index i (Len(list) + 1: a new entry) set to item
SetAt(list, i, item) == [j \in 1..(IF i > Len(list) THEN i ELSE Len(list)) |-> IF j = i THEN item ELSE list[j]]

add_main_author(inf, author) ==
    LET main_content == get_object(inf, "main_content")
        authors == Get(main_content, "author", EmptyList)
        i == FirstMatch(authors, author)
        orig_author == IF i > Len(authors) THEN EmptyDict ELSE authors[i]
    IN  Put(inf, "main_content", Put(main_content, "author", SetAt(authors, i, MergeAuthor(orig_author, author))))

\* set_main_description that overwrites the description
set_main_description_last(inf, description) ==
    Put(inf, "main_content", Put(get_object(inf, "main_content"), "description", description))

\* lines 380-385
set_main_description(inf, description) ==
    LET main_content == get_object(inf, "main_content")
    IN  IF Has(main_content, "description") THEN Put(inf, "main_content", main_content)
        ELSE Put(inf, "main_content", Put(main_content, "description", description))

ArticleTypes == {"Article", "http://schema.org/Article", "https://schema.org/Article"}

\* isinstance(ld[key], type) for a key that is present
IsA(ld, key, type) == Has(ld, key) /\ ld[key].t = type

\* lines 349-357: the candidate built from one entry of ld['author']
toplevel_author(author) ==
    LET a1 == IF Has(author, "name") THEN Put(EmptyDict, "name", author["name"]) ELSE EmptyDict
        a2 == IF Has(author, "sameAs") THEN Put(a1, "sameAs", author["sameAs"]) ELSE a1
        a3 == IF Has(author, "url")
              THEN Put(Put(a2, "url", author["url"]), "url_has_info", <<"unknown">>)
              ELSE a2
    IN  Put(a3, "json_ld", author)

RECURSIVE AddAuthors(_, _)
\* for author in ld['author']: add_main_author(info, toplevel_author)
AddAuthors(inf, authors) ==
    IF Len(authors) = 0 THEN inf
    ELSE AddAuthors(add_main_author(inf, toplevel_author(authors[1])), Tail(authors))

\* lines 361-376: the publisher merged into main_content['containing_feeds']
merge_publisher(main_content, pub) ==
    LET feeds == Get(main_content, "containing_feeds", EmptyList)
        i == FirstMatch(feeds, pub)
        orig_feed == IF i > Len(feeds) THEN EmptyDict ELSE feeds[i]
        f1 == IF Has(pub, "name") THEN Put(orig_feed, "name", pub["name"]) ELSE orig_feed
        f2 == IF Has(pub, "url")
              THEN Put(Put(f1, "url", pub["url"]), "url_has_info", <<"unknown">>)
              ELSE f1
    IN  Put(main_content, "containing_feeds", SetAt(feeds, i, Put(f2, "json_ld", pub)))

\* line 326
ld_raw(inf, ld) == set_in(inf, "main_content", "json_ld", ld)

\* lines 328-331
ld_kind(inf, ld) ==
    IF IsA(ld, "@type", "list") /\ ~Has(inf["main_content"], "kind") /\ Range(ld["@type"].v) \cap ArticleTypes # {}
    THEN set_in(inf, "main_content", "kind", "article")
    ELSE inf

\* lines 335-336
ld_title(inf, ld) ==
    IF Has(inf["main_content"], "title") THEN inf
    ELSE set_in(inf, "main_content", "title", ld["headline"].v)

\* lines 333-336
ld_headline(inf, ld) ==
    IF IsA(ld, "headline", "str") /\ ~Has(inf["main_content"], "headline")
    THEN ld_title(set_in(inf, "main_content", "headline", ld["headline"].v), ld)
    ELSE inf

\* lines 338-339
ld_date_published(inf, ld) ==
    IF IsA(ld, "datePublished", "str") /\ ~Has(inf["main_content"], "date_published")
    THEN set_in(inf, "main_content", "date_published", ld["datePublished"].v)
    ELSE inf

\* lines 341-342
ld_date_modified(inf, ld) ==
    IF IsA(ld, "dateModified", "str") /\ ~Has(inf["main_content"], "date_modified")
    THEN set_in(inf, "main_content", "date_modified", ld["dateModified"].v)
    ELSE inf

\* lines 344-345
ld_description(inf, ld) ==
    IF IsA(ld, "description", "str")
    THEN set_main_description(inf, [text |-> ld["description"].v])
    ELSE inf

RECURSIVE Adopters(_, _, _)
\* line 312 with key == 'sameAs': the entity takes the candidate's own list object
\* when it has no sameAs yet. For each entry of ld['author'], the index of the
\* entity that took its list, 0 when none did
Adopters(inf, authors, acc) ==
    IF Len(authors) = 0 THEN acc
    ELSE LET list == Get(get_object(inf, "main_content"), "author", EmptyList)
             i == FirstMatch(list, toplevel_author(authors[1]))
         IN  Adopters(add_main_author(inf, toplevel_author(authors[1])), Tail(authors),
                 Append(acc, IF Has(authors[1], "sameAs") /\ (i > Len(list) \/ ~Has(list[i], "sameAs"))
                             THEN i ELSE 0))

\* lines 308-310 append to that shared list: the entry of ld['author'] whose list
\* an entity took shows the entity's sameAs
SharedSameAs(authors, adopters, entities) ==
    [j \in 1..Len(authors) |->
        IF adopters[j] = 0 THEN authors[j]
        ELSE Put(authors[j], "sameAs", entities[adopters[j]]["sameAs"])]

\* ld, which main_content['json_ld'] is, after the loop over its authors
ld_shared(inf, ld, adopters) ==
    set_in(inf, "main_content", "json_ld",
        Put(ld, "author", JList(SharedSameAs(ld["author"].v, adopters, inf["main_content"]["author"]))))

\* lines 347-359
ld_author(inf, ld) ==
    IF IsA(ld, "author", "list") /\ Len(ld["author"].v) > 0
    THEN ld_shared(AddAuthors(inf, ld["author"].v), ld, Adopters(inf, ld["author"].v, << >>))
    ELSE inf

\* lines 361-376
ld_publisher(inf, ld) ==
    IF IsA(ld, "publisher", "dict") /\ DOMAIN ld["publisher"].v # {}
    THEN Put(inf, "main_content", merge_publisher(inf["main_content"], ld["publisher"].v))
    ELSE inf

\* lines 320-378: the single node reconciled into main_content
fill_node(inf, ld) ==
    ld_publisher(ld_author(ld_description(ld_date_modified(ld_date_published(
        ld_headline(ld_kind(ld_raw(inf, ld), ld), ld), ld), ld), ld), ld), ld)

\* fill_from_json_ld giving up only on an empty list
fill_from_json_ld_first(inf, ld_list) == IF Len(ld_list) < 1 THEN inf ELSE fill_node(inf, ld_list[1])

\* lines 316-378
fill_from_json_ld(inf, ld_list) == IF Len(ld_list) # 1 THEN inf ELSE fill_node(inf, ld_list[1])

----------------------------------------------------------------------------
(* <link> and <meta> *)

CanonicalUrl == "https://x.test/p"

\* urllib.parse.urljoin(base, url) on the URLs of the model: an empty base leaves
\* url as it is, a relative url replaces the last path segment of the base
urljoin(base, url) ==
    CASE base = "" -> url
      [] url = "" -> base
      [] base = CanonicalUrl /\ url = "a" -> "https://x.test/a"
      [] base = CanonicalUrl /\ url = "b" -> "https://x.test/b"
      [] base = CanonicalUrl /\ url = "feed" -> "https://x.test/feed"
      [] OTHER -> url

link_attrs(attr_seq) == PartitionAttrs(attr_seq, {"rel", "href", "type", "title"}, EmptyDict)

\* a favicon size: the integer px, or the sentinel "any" (px is 0 then)
IntSize(n) == [any |-> FALSE, px |-> n]

AnySize == [any |-> TRUE, px |-> 0]

AppleTouchSize == 192

DefaultIconSize == 16

\* lines 495-503: this_size; link is a dict, so link.attrs raises AttributeError
this_size(token, link) ==
    IF Has(attrs(token), "sizes")
    THEN IF attrs(token)["sizes"] = "any" THEN [exc |-> "none", size |-> AnySize]
         ELSE [exc |-> "AttributeError", size |-> AnySize]
    ELSE IF link["rel"] = "apple-touch-icon" THEN [exc |-> "none", size |-> IntSize(AppleTouchSize)]
    ELSE [exc |-> "none", size |-> IntSize(DefaultIconSize)]

\* favicon_replaces with >= for >: an equal size replaces the stored favicon too
favicon_replaces_ties(inf, size) ==
    \/ ~Has(inf, "favicon")
    \/ /\ inf["favicon"]["size"] # AnySize
       /\ (size = AnySize \/ size.px >= inf["favicon"]["size"].px)

\* line 504: whether the candidate replaces the stored favicon
favicon_replaces(inf, size) ==
    \/ ~Has(inf, "favicon")
    \/ /\ inf["favicon"]["size"] # AnySize
       /\ (size = AnySize \/ size.px > inf["favicon"]["size"].px)

\* link_url letting every canonical link set url
link_url_last(inf, link) ==
    IF Get(link, "rel", None) = "canonical" /\ Has(link, "href")
    THEN Put(inf, "url", link["href"])
    ELSE inf

\* lines 473-474
link_url(inf, link) ==
    IF Get(link, "rel", None) = "canonical" /\ ~Has(inf, "url") /\ Has(link, "href")
    THEN Put(inf, "url", link["href"])
    ELSE inf

\* link_base_url that takes the href of every canonical link
link_base_url_every(inf, link) ==
    IF Get(link, "rel", None) = "canonical" /\ Has(link, "href")
    THEN Put(inf, "base_url", link["href"])
    ELSE inf

\* lines 475-476
link_base_url(inf, link) ==
    IF Get(link, "rel", None) = "canonical" /\ ~Has(inf, "base_url") /\ Has(link, "href")
    THEN Put(inf, "base_url", link["href"])
    ELSE inf

\* lines 487-490
feed_name(feed, link) ==
    IF Has(link, "title") THEN Put(feed, "name", link["title"])
    ELSE Put(feed, "generic_name", "RSS Feed")

\* lines 477-493
link_feed(inf, link) ==
    IF Get(link, "rel", None) = "alternate" /\ Get(link, "type", None) = "application/rss+xml" /\ Has(link, "href")
    THEN append_in(inf, "main_content", "containing_feeds",
             feed_name([url |-> urljoin(Get(inf, "base_url", ""), link["href"]),
                        url_has_info |-> <<"name", "description", "unknown">>,
                        html_link |-> link], link))
    ELSE inf

\* lines 504-509: the candidate of size s.size (or the exception raised computing it)
store_favicon(s, data, inf, link) ==
    IF s.exc # "none" THEN Result(s.exc, data, inf)
    ELSE IF favicon_replaces(inf, s.size)
    THEN Result("none", data,
                Put(inf, "favicon", [size |-> s.size, url |-> urljoin(Get(inf, "base_url", ""), link["href"])]))
    ELSE Result("none", data, inf)

\* lines 494-509
link_icon(token, data, inf, link) ==
    IF Get(link, "rel", None) \in {"icon", "shortcut icon", "apple-touch-icon"} /\ Has(link, "href")
    THEN store_favicon(this_size(token, link), data, inf, link)
    ELSE Result("none", data, inf)

\* raise, or return data.skiptoken(), info
link_return(r) == IF r.exc # "none" THEN r ELSE Result("none", skiptoken(r.data).data, r.info)

\* lines 472-510: the effects of a link whose named slots are link
link_effects(token, data, inf, link) ==
    link_return(link_icon(token, data,
        link_feed(link_base_url(link_url(append_in(inf, "html", "links", link), link), link), link), link))

\* lines 454-510
toplevel_link(token, data, inf) == link_effects(token, data, inf, link_attrs(token.attr_seq))

\* a or b: the first operand unless it is None or empty
Or(a, b) == IF a = None \/ a = "" THEN b ELSE a

\* lines 514-515
meta_description(inf, name, a) ==
    IF name \in {"description", "og:description"} /\ Has(a, "content")
    THEN set_main_description(inf, [text |-> a["content"]])
    ELSE inf

\* lines 516-517
meta_author(inf, name, a) ==
    IF name = "sailthru.author" /\ Has(a, "content")
    THEN add_main_author(inf, [name |-> a["content"]])
    ELSE inf

\* lines 518-521
meta_type(inf, name, a) ==
    IF name = "og:type" /\ Get(a, "content", None) = "article"
    THEN set_in(inf, "main_content", "kind", "article")
    ELSE inf

\* lines 522-525
meta_title(inf, name, a) ==
    IF name = "og:title" /\ Has(a, "content")
    THEN set_in(inf, "main_content", "title", a["content"])
    ELSE inf

\* lines 526-528
meta_url(inf, name, a) ==
    IF name = "og:url" /\ Has(a, "content") /\ ~Has(inf, "url")
    THEN Put(inf, "url", a["content"])
    ELSE inf

\* lines 526-530
meta_base_url(inf, name, a) ==
    IF name = "og:url" /\ Has(a, "content") /\ ~Has(inf, "base_url")
    THEN Put(inf, "base_url", a["content"])
    ELSE inf

\* line 513
meta_name(a) ==
    Or(Get(a, "name", None), Or(Get(a, "http-equiv", None), Or(Get(a, "itemprop", None), Get(a, "property", None))))

\* lines 512-530: the effects of a meta whose attributes are a and logical name is name
meta_effects(inf, name, a) ==
    meta_base_url(meta_url(meta_title(meta_type(meta_author(meta_description(
        append_in(inf, "html", "metas", a), name, a), name, a), name, a), name, a), name, a), name, a)

\* lines 511-531
toplevel_meta(token, data, inf) ==
    Result("none", skiptoken(data).data, meta_effects(inf, meta_name(attrs(token)), attrs(token)))

----------------------------------------------------------------------------
(* The top-level dispatch: tokenparse_html_toplevel *)

RECURSIVE HtmlAttrs(_, _)
\* lines 425-434: id and class singled out, every other attribute appended
HtmlAttrs(attr_seq, h) ==
    IF Len(attr_seq) = 0 THEN h
    ELSE LET attr == attr_seq[1][1]
             value == attr_seq[1][2]
         IN  HtmlAttrs(Tail(attr_seq),
                 IF attr = "id" THEN Put(h, "html_id", value)
                 ELSE IF attr = "class" THEN Put(h, "html_class", value)
                 ELSE append_object(h, "html_unknown_attrs", <<attr, value>>))

RECURSIVE AppendAttrs(_, _, _)
\* lines 437-439 and 442-444: every attribute appended to head_attrs or body_attrs
AppendAttrs(attr_seq, h, name) ==
    IF Len(attr_seq) = 0 THEN h
    ELSE AppendAttrs(Tail(attr_seq), append_object(h, name, attr_seq[1]), name)

\* get_object(info, 'html') is only called inside the loop over the attributes
WithHtml(inf, attr_seq, h) == IF Len(attr_seq) = 0 THEN inf ELSE Put(inf, "html", h)

\* toplevel_fallback returning on whitespace without consuming it
toplevel_fallback_stay(token, data, inf) ==
    IF token.kind = "data" /\ isspace(token.data) THEN Result("none", data, inf)
    ELSE IF token.kind = "comment"
         THEN Result("none", skiptoken(data).data, append_in(inf, "html", "comments", token.data))
    ELSE Result("none", skiptoken(data).data, append_object(inf, "unknown_tokens", token_record(token)))

\* toplevel_fallback inserting the record at the front of unknown_tokens
toplevel_fallback_front(token, data, inf) ==
    IF token.kind = "data" /\ isspace(token.data) THEN Result("none", skiptoken(data).data, inf)
    ELSE IF token.kind = "comment"
         THEN Result("none", skiptoken(data).data, append_in(inf, "html", "comments", token.data))
    ELSE Result("none", skiptoken(data).data,
             Put(inf, "unknown_tokens", <<token_record(token)>> \o Get(inf, "unknown_tokens", EmptyList)))

\* lines 563-578: whitespace, comment, and the capture of an unrecognized token
toplevel_fallback(token, data, inf) ==
    IF token.kind = "data" /\ isspace(token.data) THEN Result("none", skiptoken(data).data, inf)
    ELSE IF token.kind = "comment"
         THEN Result("none", skiptoken(data).data, append_in(inf, "html", "comments", token.data))
    ELSE Result("none", skiptoken(data).data, append_object(inf, "unknown_tokens", token_record(token)))

\* lines 548-578: what follows the start-tag rules
toplevel_rest(token, data, inf) ==
    LET c == tokenparse_html_content(data, inf)
        fe == format_exception
    IN  IF token.kind = "end" /\ token.tag \in {"html", "head", "link", "meta", "body"}
        THEN Result("none", skiptoken(data).data, inf)
        ELSE IF token.kind = "decl" THEN Result("none", skiptoken(data).data, inf)
        ELSE IF c.exc = "none" THEN Result("none", c.data, append_in(c.info, "html", "content", c.content))
        ELSE IF IsUnrecognizedDataError(c.exc) THEN toplevel_fallback(token, data, c.info)
        ELSE IF IsParseError(c.exc)
             THEN IF fe.exc # "none" THEN Result(fe.exc, data, c.info)
                  ELSE toplevel_fallback(token, data, append_object(c.info, "errors", fe.value))
        ELSE Result(c.exc, c.data, c.info)

\* except ParseError at lines 450-453, 536-539 and 544-547, and the fall through
\* to line 548 with the cursor still at the opening token
toplevel_recover(token, data, inf) ==
    LET i1 == IF Has(inf, "errors") THEN inf ELSE Put(inf, "errors", EmptyList)
        fe == format_exception
    IN  IF fe.exc # "none" THEN Result(fe.exc, data, i1)
        ELSE toplevel_rest(token, data, Put(i1, "errors", Append(i1["errors"], fe.value)))

\* try: an element extractor; except ParseError: record and fall through
toplevel_try(r, token, data) ==
    IF r.exc = "none" THEN r
    ELSE IF IsParseError(r.exc) THEN toplevel_recover(token, data, r.info)
    ELSE r

tokenparse_html_toplevel(data, inf) ==
    LET token == peektoken(data)
        h == get_object(inf, "html")
    IN  IF token.kind = "start" /\ token.tag = "html"
        THEN Result("none", skiptoken(data).data, WithHtml(inf, token.attr_seq, HtmlAttrs(token.attr_seq, h)))
        ELSE IF token.kind = "start" /\ token.tag = "head"
        THEN Result("none", skiptoken(data).data, WithHtml(inf, token.attr_seq, AppendAttrs(token.attr_seq, h, "head_attrs")))
        ELSE IF token.kind = "start" /\ token.tag = "body"
        THEN Result("none", skiptoken(data).data, WithHtml(inf, token.attr_seq, AppendAttrs(token.attr_seq, h, "body_attrs")))
        ELSE IF token.kind = "start" /\ token.tag = "script"
        THEN toplevel_try(tokenparse_html_script(data, inf), token, data)
        ELSE IF token.kind = "start" /\ token.tag = "link" THEN toplevel_link(token, data, inf)
        ELSE IF token.kind = "start" /\ token.tag = "meta" THEN toplevel_meta(token, data, inf)
        ELSE IF token.kind = "start" /\ token.tag = "title"
        THEN toplevel_try(tokenparse_html_title(data, inf), token, data)
        ELSE IF token.kind = "start" /\ token.tag = "style"
        THEN toplevel_try(tokenparse_html_style(data, inf), token, data)
        ELSE toplevel_rest(token, data, inf)

\* line 584; info['json_ld'][0] and main_content['json_ld'] are one object
reconcile(inf) ==
    IF ~Has(inf, "json_ld") THEN inf
    ELSE IF Len(inf["json_ld"]) # 1 THEN fill_from_json_ld(inf, inf["json_ld"])
    ELSE Put(fill_from_json_ld(inf, inf["json_ld"]), "json_ld",
             <<fill_from_json_ld(inf, inf["json_ld"])["main_content"]["json_ld"]>>)

\* the last resort taken whenever html.title is set
last_resort_title_always(inf) ==
    IF Has(Get(inf, "html", EmptyDict), "title")
    THEN set_in(inf, "main_content", "title", inf["html"]["title"])
    ELSE inf

\* lines 585-587
last_resort_title(inf) ==
    IF ~Has(Get(inf, "main_content", EmptyDict), "title") /\ Has(Get(inf, "html", EmptyDict), "title")
    THEN set_in(inf, "main_content", "title", inf["html"]["title"])
    ELSE inf

\* lines 583-587: the reconciliation pass and the last-resort title
tokenparse_html_finish(inf) == last_resort_title(reconcile(inf))

----------------------------------------------------------------------------
(* Inputs *)

MaxTokens == 4

MaxTail == 3

StartTag(tag, attr_seq) == SgmlToken("start", tag, attr_seq, None)

EndTag(tag) == SgmlToken("end", tag, NoAttrs, None)

Data(text) == SgmlToken("data", None, NoAttrs, text)

Comment(text) == SgmlToken("comment", None, NoAttrs, text)

Decl == SgmlToken("decl", None, NoAttrs, "doctype html")

\* the sequences of at most n elements of S
SeqsUpTo(S, n) == UNION {[1..k -> S] : k \in 0..n}

\* title, script and style elements, well formed or not
ElementTokens ==
    {StartTag("title", << >>), Data("x"), EndTag("title"),
     StartTag("script", << >>), EndTag("script"),
     StartTag("style", <<<<"media", "print">>>>), EndTag("style"),
     StartTag("body", <<<<"id", "b">>>>)}

\* content regions and the tokens no extraction rule matches
ContentTokens ==
    {StartTag("noscript", << >>), EndTag("noscript"), Data("x"), Data(" "),
     Comment("c"), StartTag("div", <<<<"id", "d">>>>), EndTag("div")}

\* the document structure, link and meta
StructureTokens ==
    {Decl, StartTag("html", <<<<"id", "i">>, <<"lang", "en">>>>), StartTag("head", << >>), EndTag("head"),
     StartTag("meta", <<<<"name", "description">>, <<"content", "d">>>>),
     StartTag("link", <<<<"rel", "icon">>, <<"sizes", "16x16">>, <<"href", "a">>>>),
     EndTag("p")}

\* the sources of url and base_url: canonical links and og:url meta elements
UrlTokens ==
    {StartTag("link", <<<<"rel", "canonical">>, <<"href", CanonicalUrl>>>>),
     StartTag("link", <<<<"rel", "canonical">>, <<"href", "https://y.test/q">>>>),
     StartTag("link", <<<<"rel", "canonical">>>>),
     StartTag("meta", <<<<"property", "og:url">>, <<"content", "https://z.test/">>>>),
     StartTag("meta", <<<<"property", "og:url">>>>)}

\* "<!doctype", in lower case, upper case, mixed case, and misspelt
DoctypeSpellings ==
    {DoctypeLiteral,
     <<60, 33, 68, 79, 67, 84, 89, 80, 69>>,
     <<60, 33, 68, 111, 99, 84, 121, 112, 69>>,
     <<60, 33, 100, 111, 99, 116, 121, 112, 111>>,
     <<60, 63, 120, 109, 108, 32, 118, 61, 49>>}

\* what follows: short sequences of " ", ">" and "x", and some doctype tails
TailBytes == {32, 62, 120}

DoctypeTails ==
    {<<32, 104, 116, 109, 108, 62>>,
     <<32, 72, 84, 77, 76, 62>>,
     <<9, 10, 104, 116, 109, 108, 62>>,
     <<32, 104, 116, 109, 108, 32, 62>>,
     <<32, 104, 116, 109, 108>>,
     <<32, 104, 116, 109, 108, 62, 120>>,
     <<32, 115, 118, 103, 62>>,
     <<32, 115, 118, 103, 62, 120, 255>>,
     <<32, 255, 62>>}

Buffers ==
    {SubSeq(p, 1, k) \o t : p \in DoctypeSpellings, k \in 0..Len(DoctypeLiteral),
                            t \in SeqsUpTo(TailBytes, MaxTail) \cup DoctypeTails}

HtmlDocument == DoctypeLiteral \o <<32, 104, 116, 109, 108, 62>>

----------------------------------------------------------------------------
(* The parse *)

\* the state parse_bytes starts in, on a given buffer and tokenizer output
Start(buf, toks) ==
    /\ buffer = buf
    /\ tokens = toks
    /\ start = 0
    /\ info = EmptyDict
    /\ pc = "parse_bytes"
    /\ exc = "none"
    /\ dispatched = << >>
    /\ args = << >>
    /\ ret = << >>

\* an HTML document whose tokens are any at most MaxTokens tokens of S
StartOn(S) == \E k \in 0..MaxTokens : \E toks \in [1..k -> S] : Start(HtmlDocument, toks)

Init ==
    \/ \E buf \in Buffers : Start(buf, <<Decl, StartTag("html", << >>)>>)
    \/ StartOn(ElementTokens)
    \/ StartOn(ContentTokens)
    \/ StartOn(StructureTokens)
    \/ StartOn(UrlTokens)

Abort(e, inf) ==
    /\ pc' = "aborted"
    /\ exc' = e
    /\ info' = inf
    /\ UNCHANGED <<buffer, tokens, start, dispatched, args, ret>>

\* parse_bytes and parse_unknown, up to the walk of the tokens of an HTML document
ParseBytes ==
    /\ pc = "parse_bytes"
    /\ LET data == ParseState(buffer, 0, Len(buffer))
           r == parse_unknown(data, EmptyDict)
       IN  IF r.exc # "none" THEN Abort(r.exc, r.info)
           ELSE /\ pc' = IF r.html THEN "tokenparse_html" ELSE "returned"
                /\ info' = IF ~r.html /\ r.data.start # r.data.end
                           THEN Put(r.info, "trailing_data", decode(Slice(buffer, r.data.start, r.data.end)))
                           ELSE r.info
                /\ UNCHANGED <<buffer, tokens, start, exc, dispatched, args, ret>>

\* one iteration of the loop of tokenparse_html
WalkStep ==
    /\ pc = "tokenparse_html"
    /\ start < Len(tokens)
    /\ LET r == tokenparse_html_toplevel(TokenParseState(tokens, start, Len(tokens)), info)
       IN  IF r.exc # "none" THEN Abort(r.exc, r.info)
           ELSE /\ start' = r.data.start
                /\ info' = r.info
                /\ dispatched' = Append(dispatched, start)
                /\ UNCHANGED <<buffer, tokens, pc, exc, args, ret>>

\* the end of tokenparse_html, and the return through parse_html to parse_bytes
Reconcile ==
    /\ pc = "tokenparse_html"
    /\ ~(start < Len(tokens))
    /\ info' = tokenparse_html_finish(info)
    /\ pc' = "returned"
    /\ UNCHANGED <<buffer, tokens, start, exc, dispatched, args, ret>>

Next == ParseBytes \/ WalkStep \/ Reconcile

Spec == Init /\ [][Next]_vars

----------------------------------------------------------------------------
(* The preamble *)

\* the buffer begins with the nine bytes of "<!doctype", letters in either case
BeginsWithDoctype ==
    /\ Len(buffer) >= Len(DoctypeLiteral)
    /\ \A i \in 1..Len(DoctypeLiteral) :
          \/ buffer[i] = DoctypeLiteral[i]
          \/ DoctypeLiteral[i] \in 97..122 /\ buffer[i] = DoctypeLiteral[i] - 32

\* C1: once parse_bytes has run on a buffer that does not begin with a
\* case-insensitive "<!doctype" (the empty buffer and buffers shorter than the
\* literal included), it has raised UnrecognizedPreambleError and no result exists
C1_UnrecognizedPreamble ==
    (pc # "parse_bytes" /\ ~BeginsWithDoctype)
        => (pc = "aborted" /\ exc = "UnrecognizedPreambleError" /\ info = EmptyDict)

\* a proper, non-empty prefix of "<!doctype" has been rejected
C1_Witness ==
    /\ pc = "aborted" /\ exc = "UnrecognizedPreambleError"
    /\ Len(buffer) > 0 /\ Len(buffer) < Len(DoctypeLiteral)
    /\ buffer = SubSeq(DoctypeLiteral, 1, Len(buffer))

----------------------------------------------------------------------------
(* The walk *)

\* parse_unknown takes the HTML path on the buffer
HtmlPath == parse_unknown(ParseState(buffer, 0, Len(buffer)), EmptyDict).html

\* the token the cursor i is at begins a title, style or script element and the
\* token after it is one the element cannot continue with
DeviatesAt(i) ==
    /\ i + 2 <= Len(tokens)
    /\ tokens[i + 1].kind = "start"
    /\ \/ tokens[i + 1].tag \in {"title", "style"} /\ tokens[i + 2].kind # "data"
       \/ /\ tokens[i + 1].tag = "script"
          /\ tokens[i + 2].kind # "data"
          /\ ~(tokens[i + 2].kind = "end" /\ tokens[i + 2].tag = "script")

\* what the walk has captured of title, style and script elements
Captured(inf) ==
    [title |-> Get(Get(inf, "html", EmptyDict), "title", None),
     scripts |-> Get(Get(inf, "html", EmptyDict), "scripts", EmptyList),
     styles |-> Get(Get(inf, "html", EmptyDict), "styles", EmptyList)]

\* C2: a walker step on a title, style or script element whose next token
\* deviates from the expected shape appends exactly one entry to errors, captures
\* no value for the element, and leaves the cursor one token past the element's
\* start token with the walk going on
C2_RecoversFromMalformedElement ==
    [][(pc = "tokenparse_html" /\ DeviatesAt(start))
          => /\ pc' = "tokenparse_html"
             /\ start' = start + 1
             /\ Len(Get(info', "errors", EmptyList)) = Len(Get(info, "errors", EmptyList)) + 1
             /\ Captured(info') = Captured(info)]_vars

\* C3: every walker step that returns leaves the cursor strictly greater than
\* it was and at most the end of the stream, so the steps taken never outnumber
\* the tokens consumed; and a walk on which no step aborts returns with the
\* cursor at the end of the stream
C3_Progress ==
    [][/\ (pc = "tokenparse_html" /\ pc' = "tokenparse_html")
             => (start < start' /\ start' <= Len(tokens) /\ Len(dispatched') <= start')
       /\ (pc = "tokenparse_html" /\ pc' = "returned")
             => (start' = Len(tokens) /\ Len(dispatched') <= start')]_vars

\* a walk has returned after steps of which one consumed several tokens
C3_Witness == pc = "returned" /\ Len(dispatched) >= 2 /\ Len(dispatched) < start

RECURSIVE Closes(_, _)
\* the content region entered before token i (1-based) with depth open noscript
\* elements meets its closing tags before the end of the stream
Closes(i, depth) ==
    IF depth = 0 THEN TRUE
    ELSE IF i > Len(tokens) THEN FALSE
    ELSE IF tokens[i].kind = "start" /\ tokens[i].tag = "noscript" THEN Closes(i + 1, depth + 1)
    ELSE IF tokens[i].kind = "end" /\ tokens[i].tag = "noscript" THEN Closes(i + 1, depth - 1)
    ELSE Closes(i + 1, depth)

\* some noscript region of the stream is not closed before the end of the stream
UnclosedNoscript ==
    \E i \in 1..Len(tokens) :
        tokens[i].kind = "start" /\ tokens[i].tag = "noscript" /\ ~Closes(i + 1, 1)

\* C4: of the token streams of an accepted HTML document, the walk aborts
\* only on those with a noscript region that is not closed before the end
C4_OnlyUnclosedNoscriptAborts == (pc = "aborted" /\ HtmlPath) => UnclosedNoscript

----------------------------------------------------------------------------
(* unknown_tokens *)

\* no rule of the dispatcher matches the token
NoRuleMatches(token) ==
    CASE token.kind = "start" ->
             token.tag \notin {"html", "head", "body", "script", "link", "meta", "title", "style", "noscript"}
      [] token.kind = "end" -> token.tag \notin {"html", "head", "link", "meta", "body"}
      [] token.kind = "data" ->
             \/ Len(Chars(token.data)) = 0
             \/ \E i \in 1..Len(Chars(token.data)) : Chars(token.data)[i] \notin {" ", "\t", "\n", "\r"}
      [] token.kind \in {"decl", "comment"} -> FALSE
      [] OTHER -> TRUE

RECURSIVE Unmatched(_)
\* of the tokens at the given cursors, in order, those no rule matches, each as
\* its kind, tag, attribute sequence and data
Unmatched(cursors) ==
    IF Len(cursors) = 0 THEN << >>
    ELSE LET token == tokens[cursors[1] + 1]
         IN  (IF NoRuleMatches(token)
              THEN <<[kind |-> token.kind, tag |-> token.tag, attrs |-> token.attr_seq, data |-> token.data]>>
              ELSE << >>) \o Unmatched(Tail(cursors))

\* C10: unknown_tokens holds, in dispatch order and verbatim, exactly the
\* tokens dispatched so far that no rule matches, and is absent when there is none
C10_UnknownTokens ==
    /\ Get(info, "unknown_tokens", EmptyList) = Unmatched(dispatched)
    /\ Has(info, "unknown_tokens") <=> Len(Unmatched(dispatched)) > 0

\* a walk has returned with two different unknown tokens and other tokens dispatched
C10_Witness ==
    /\ pc = "returned"
    /\ Len(Get(info, "unknown_tokens", EmptyList)) >= 2
    /\ info["unknown_tokens"][1] # info["unknown_tokens"][2]
    /\ Len(dispatched) > Len(info["unknown_tokens"])

----------------------------------------------------------------------------
(* Favicon ranking: documents whose tokens are link elements *)

Link(attr_seq) == StartTag("link", attr_seq)

Icon16 == Link(<<<<"rel", "icon">>, <<"sizes", "16x16">>, <<"href", "a">>>>)

Icon32 == Link(<<<<"rel", "icon">>, <<"sizes", "32x32">>, <<"href", "b">>>>)

LinkTokens ==
    {Link(<<<<"rel", "icon">>, <<"href", "a">>>>),
     Link(<<<<"rel", "shortcut icon">>, <<"href", "d">>>>),
     Link(<<<<"rel", "apple-touch-icon">>, <<"href", "b">>>>),
     Link(<<<<"rel", "icon">>, <<"sizes", "any">>, <<"href", "c">>>>),
     Link(<<<<"rel", "apple-touch-icon">>, <<"sizes", "any">>, <<"href", "e">>>>),
     Link(<<<<"rel", "icon">>, <<"sizes", "any">>>>),
     Link(<<<<"rel", "canonical">>, <<"href", CanonicalUrl>>>>),
     Icon16, Icon32}

InitFavicon == StartOn(LinkTokens)

SpecFavicon == InitFavicon /\ [][Next]_vars

\* the value of the attribute in an attribute sequence that names it once
AttrValue(attr_seq, name) ==
    IF \E i \in 1..Len(attr_seq) : attr_seq[i][1] = name
    THEN attr_seq[CHOOSE i \in 1..Len(attr_seq) : attr_seq[i][1] = name][2]
    ELSE None

\* an icon link: rel is icon, shortcut icon or apple-touch-icon, and it has an href
IsIconLink(token) ==
    /\ token.kind = "start" /\ token.tag = "link"
    /\ AttrValue(token.attr_seq, "rel") \in {"icon", "shortcut icon", "apple-touch-icon"}
    /\ AttrValue(token.attr_seq, "href") # None

\* the size an icon link declares: "any", the W of WxH, and without a sizes
\* attribute 192 for an apple-touch-icon and 16 for the others
DeclaredSize(token) ==
    CASE AttrValue(token.attr_seq, "sizes") = "any" -> AnySize
      [] AttrValue(token.attr_seq, "sizes") = "16x16" -> IntSize(16)
      [] AttrValue(token.attr_seq, "sizes") = "32x32" -> IntSize(32)
      [] AttrValue(token.attr_seq, "rel") = "apple-touch-icon" -> IntSize(AppleTouchSize)
      [] OTHER -> IntSize(DefaultIconSize)

\* size s strictly dominates size t: "any" dominates every integer
Dominates(s, t) == t # AnySize /\ (s = AnySize \/ s.px > t.px)

\* the cursors, among those dispatched, of the icon links
IconCursors == SelectSeq(dispatched, LAMBDA c : IsIconLink(tokens[c + 1]))

\* the base URL in force when the token at cursor c was dispatched: the href of
\* the first canonical link dispatched before it
BaseUrlAt(c) ==
    LET canonical == SelectSeq(dispatched, LAMBDA d : d < c /\ AttrValue(tokens[d + 1].attr_seq, "rel") = "canonical")
    IN  IF Len(canonical) = 0 THEN "" ELSE AttrValue(tokens[canonical[1] + 1].attr_seq, "href")

\* the favicon the icon link at cursor c stands for
Candidate(c) ==
    [size |-> DeclaredSize(tokens[c + 1]),
     url |-> urljoin(BaseUrlAt(c), AttrValue(tokens[c + 1].attr_seq, "href"))]

\* C5: after every walker step, favicon exists exactly when an icon link has
\* been processed, and it is the candidate that no processed candidate strictly
\* dominates and that is the first processed among those of its size ("any"
\* dominates every integer size)
C5_FaviconIsMaximum ==
    IF Len(IconCursors) = 0 THEN ~Has(info, "favicon")
    ELSE /\ Has(info, "favicon")
         /\ \E k \in 1..Len(IconCursors) :
               /\ info["favicon"] = Candidate(IconCursors[k])
               /\ \A j \in 1..Len(IconCursors) :
                     ~Dominates(Candidate(IconCursors[j]).size, Candidate(IconCursors[k]).size)
               /\ \A j \in 1..(k - 1) :
                     Candidate(IconCursors[j]).size # Candidate(IconCursors[k]).size

\* four icon links have been processed: sizes 16, 16, 192 and 192 in turn, the
\* stored favicon being the first of size 192
C5_Witness ==
    /\ pc = "returned"
    /\ Len(IconCursors) = 4
    /\ [k \in 1..4 |-> Candidate(IconCursors[k]).size]
           = <<IntSize(16), IntSize(16), IntSize(192), IntSize(192)>>
    /\ info["favicon"] = Candidate(IconCursors[3])

\* C6: the parse of a 16x16 icon link with href a and a 32x32 icon link with
\* href b, in either order, ends with a stored favicon of size 32 and url b
C6_FaviconOrderIndependent ==
    (tokens \in {<<Icon16, Icon32>>, <<Icon32, Icon16>>} /\ pc \in {"returned", "aborted"})
        => (pc = "returned" /\ Get(info, "favicon", EmptyDict) = [size |-> IntSize(32), url |-> "b"])

----------------------------------------------------------------------------
(* Identity matching: object_matches on pairs of entities *)

\* the fields of a dict given as a function on names, the absent ones being None
Entity(fields) == [key \in {k \in DOMAIN fields : fields[k] # <<None>>} |-> fields[key][1]]

\* entities with an optional name, an optional url and an optional sameAs list
Entities ==
    {Entity([name |-> <<n>>, url |-> <<u>>, sameAs |-> <<l>>]) :
        n \in {None, "n1", "n2"},
        u \in {None, "u1", "u2"},
        l \in {None, << >>, <<"u1">>, <<"u2", "u3">>}}

\* a call of a function of the walker on its own: its arguments, and no document
Call(position, arguments, inf) ==
    /\ pc = position
    /\ args = arguments
    /\ ret = << >>
    /\ info = inf
    /\ buffer = << >> /\ tokens = << >> /\ start = 0 /\ exc = "none" /\ dispatched = << >>

InitMatch == \E obj \in Entities, ld \in Entities : Call("object_matches", <<obj, ld>>, EmptyDict)

CallObjectMatches ==
    /\ pc = "object_matches"
    /\ ret' = <<object_matches(args[1], args[2])>>
    /\ pc' = "returned"
    /\ UNCHANGED <<buffer, tokens, start, info, exc, dispatched, args>>

NextMatch == CallObjectMatches

SpecMatch == InitMatch /\ [][NextMatch]_vars

\* {url} and sameAs of an entity, as a set
UrlSet(entity) ==
    (IF "url" \in DOMAIN entity THEN {entity.url} ELSE {})
        \cup (IF "sameAs" \in DOMAIN entity THEN {entity.sameAs[i] : i \in 1..Len(entity.sameAs)} ELSE {})

\* the two entities have names, and the same one
NamesEqual(a, b) == "name" \in DOMAIN a /\ "name" \in DOMAIN b /\ a.name = b.name

\* C7: object_matches reports two entities as the same if and only if their
\* names are equal or {url} and sameAs of one have an element in common with
\* those of the other
C7_MatchesIffNameOrUrl ==
    pc = "returned"
        => (ret[1] <=> (NamesEqual(args[1], args[2]) \/ UrlSet(args[1]) \cap UrlSet(args[2]) # {}))

----------------------------------------------------------------------------
(* The merge of authors: add_main_author on two candidates in turn *)

\* author candidates: a name, a sameAs list and a url, each optional
Candidates ==
    {Entity([name |-> <<n>>, sameAs |-> <<l>>, url |-> <<u>>]) :
        n \in {None, "A", "B"},
        l \in {None, <<"u1">>, <<"u1", "u1">>, <<"u1", "u2">>, <<"u2", "u1">>, <<"u4">>},
        u \in {None, "u3"}}

\* the result record before the merge: no author yet, or one that a meta
\* element named, or one with a sameAs list
PriorAuthors == {<< >>, <<[name |-> "C"]>>, <<[name |-> "C", sameAs |-> <<"u5">>]>>}

InitAuthors ==
    \E first \in Candidates, second \in Candidates, prior \in PriorAuthors :
        Call("add_main_author", <<first, second, prior>>,
             IF prior = << >> THEN EmptyDict ELSE [main_content |-> [author |-> prior]])

\* add_main_author on the next of the two candidates
CallAddMainAuthor ==
    /\ pc = "add_main_author"
    /\ Len(ret) < 2
    /\ info' = add_main_author(info, args[Len(ret) + 1])
    /\ ret' = Append(ret, Len(info'["main_content"]["author"]))
    /\ UNCHANGED <<buffer, tokens, start, pc, exc, dispatched, args>>

\* the two candidates are merged
ReturnAuthors ==
    /\ pc = "add_main_author"
    /\ Len(ret) = 2
    /\ pc' = "returned"
    /\ UNCHANGED <<buffer, tokens, start, info, exc, dispatched, args, ret>>

NextAuthors == CallAddMainAuthor \/ ReturnAuthors

SpecAuthors == InitAuthors /\ [][NextAuthors]_vars

\* the URLs of a sameAs list
SameAsSet(candidate) ==
    IF "sameAs" \in DOMAIN candidate THEN {candidate.sameAs[i] : i \in 1..Len(candidate.sameAs)} ELSE {}

\* C8: two candidates that share a sameAs URL, merged one after the other, add
\* exactly one author entity, and its sameAs list is the union of the two
\* candidates' lists with no URL twice
C8_MergedSameAsIsUnion ==
    (pc = "returned" /\ SameAsSet(args[1]) \cap SameAsSet(args[2]) # {})
        => LET author == info["main_content"]["author"]
               merged == author[Len(author)]
           IN  /\ Len(author) = Len(args[3]) + 1
               /\ ret = <<Len(author), Len(author)>>
               /\ {merged["sameAs"][i] : i \in 1..Len(merged["sameAs"])} = SameAsSet(args[1]) \cup SameAsSet(args[2])
               /\ Len(merged["sameAs"]) = Cardinality(SameAsSet(args[1]) \cup SameAsSet(args[2]))

----------------------------------------------------------------------------
(* Reconciliation: documents of ld+json scripts, a title and meta elements *)

MaxElements == 3

Script(type, payload) == <<StartTag("script", <<<<"type", type>>>>), Data(payload), EndTag("script")>>

Meta(name, content) == <<StartTag("meta", <<<<"name", name>>, <<"content", content>>>>)>>

\* whole elements, each the sequence of its tokens
Elements ==
    {Script("application/ld+json", payload) : payload \in {"[A]", "[P]", "[A,P]", "[]", "7"}}
        \cup {Script("application/manifest+json", "[A]"),
              <<StartTag("title", << >>), Data(" Hi "), EndTag("title")>>,
              Meta("description", "d"), Meta("sailthru.author", "Ann"), Meta("og:title", "T")}

RECURSIVE Flatten(_)
Flatten(seqs) == IF Len(seqs) = 0 THEN << >> ELSE seqs[1] \o Flatten(Tail(seqs))

Title(text) == <<StartTag("title", << >>), Data(text), EndTag("title")>>

\* the sources of title and description, and scripts that carry no JSON-LD
SignalElements ==
    {Title(" Hi "), Title("x"), Meta("og:title", "T"), Meta("og:title", "T2"),
     Meta("description", "d"), Meta("og:description", "e"),
     Script("application/ld+json", "[A]"), Script("application/ld+json", "[P]"),
     Script("application/ld+json", "[A,P]"),
     <<StartTag("script", <<<<"type", "application/ld+json">>, <<"src", "s">>>>), EndTag("script")>>,
     <<StartTag("script", <<<<"async", None>>>>), Data("x"), EndTag("script")>>}

\* an HTML document of at most MaxElements elements of S
ElementsOn(S) ==
    \E k \in 0..MaxElements : \E elements \in [1..k -> S] : Start(HtmlDocument, Flatten(elements))

InitJsonLd == ElementsOn(Elements) \/ ElementsOn(SignalElements)

SpecJsonLd == InitJsonLd /\ [][Next]_vars

\* the keys of main_content that reconciliation fills from a JSON-LD node
ReconciledKeys ==
    {"kind", "headline", "date_published", "date_modified", "description", "author",
     "containing_feeds", "json_ld"}

MainContent(inf) == Get(inf, "main_content", EmptyDict)

\* C9: when the walk ends with more than one node in json_ld, the reconciliation
\* leaves kind, headline, dates, description, author, containing_feeds and
\* json_ld of main_content as the walk left them, changes title only by the
\* last-resort copy of html.title, and keeps every node of the top-level json_ld
C9_MultiNodeIsNoOp ==
    [][(pc = "tokenparse_html" /\ pc' = "returned" /\ Len(Get(info, "json_ld", EmptyList)) > 1)
          => /\ info'["json_ld"] = info["json_ld"]
             /\ \A key \in ReconciledKeys :
                   /\ Has(MainContent(info'), key) <=> Has(MainContent(info), key)
                   /\ Has(MainContent(info), key) => MainContent(info')[key] = MainContent(info)[key]
             /\ IF Has(MainContent(info), "title")
                THEN MainContent(info')["title"] = MainContent(info)["title"]
                ELSE IF Has(Get(info, "html", EmptyDict), "title")
                THEN MainContent(info')["title"] = info["html"]["title"]
                ELSE ~Has(MainContent(info'), "title")]_vars

\* a walk has returned with an Article node first of two nodes, an author the
\* walk recorded, and none of the Article's fields in main_content
C9_Witness ==
    /\ pc = "returned"
    /\ Len(Get(info, "json_ld", EmptyList)) = 2
    /\ info["json_ld"][1] = NodeArticle
    /\ Has(MainContent(info), "author")
    /\ ~Has(MainContent(info), "headline")
    /\ ~Has(MainContent(info), "json_ld")

----------------------------------------------------------------------------
(* Titles *)

\* the text without its leading and trailing whitespace
Trimmed(text) ==
    LET cs == Chars(text)
        kept == {i \in 1..Len(cs) : cs[i] \notin {" ", "\t", "\n", "\r"}}
    IN  IF kept = {} THEN ""
        ELSE Str(SubSeq(cs, CHOOSE i \in kept : \A j \in kept : i <= j,
                            CHOOSE i \in kept : \A j \in kept : j <= i))

\* the cursors, among those dispatched, of the title elements
TitleCursors == SelectSeq(dispatched, LAMBDA c : tokens[c + 1].kind = "start" /\ tokens[c + 1].tag = "title")

\* the text of the last title element dispatched, trimmed
LastTitle == Trimmed(tokens[TitleCursors[Len(TitleCursors)] + 2].data)

\* the contents of the og:title meta elements dispatched, in order
OgTitles ==
    LET metas == SelectSeq(dispatched, LAMBDA c :
                     /\ tokens[c + 1].kind = "start" /\ tokens[c + 1].tag = "meta"
                     /\ AttrValue(tokens[c + 1].attr_seq, "name") = "og:title"
                     /\ AttrValue(tokens[c + 1].attr_seq, "content") # None)
    IN  [i \in 1..Len(metas) |-> AttrValue(tokens[metas[i] + 1].attr_seq, "content")]

\* json_ld holds exactly one node, and its headline is a string
HeadlineReconciled ==
    /\ Len(Get(info, "json_ld", EmptyList)) = 1
    /\ Has(info["json_ld"][1], "headline")
    /\ info["json_ld"][1]["headline"].t = "str"

\* C11: once a title element start title, data X, end title is dispatched,
\* html.title is X without its leading and trailing whitespace, for the last
\* such element; and after the walk main_content.title is that value when no
\* og:title meta and no reconciled JSON-LD headline set a title
C11_TitleIsStripped ==
    Len(TitleCursors) > 0
        => /\ info["html"]["title"] = LastTitle
           /\ (pc = "returned" /\ Len(OgTitles) = 0 /\ ~HeadlineReconciled)
                 => MainContent(info)["title"] = LastTitle

\* two titles were dispatched, the last with whitespace around it, and two
\* JSON-LD nodes that are not reconciled
C11_Witness ==
    /\ pc = "returned"
    /\ Len(TitleCursors) = 2
    /\ tokens[TitleCursors[1] + 2].data = "x"
    /\ tokens[TitleCursors[2] + 2].data = " Hi "
    /\ Len(Get(info, "json_ld", EmptyList)) = 2
    /\ info["html"]["title"] = "Hi"
    /\ info["main_content"]["title"] = "Hi"

----------------------------------------------------------------------------
(* url and base_url *)

\* the URL the token names as the document's own: the href of a canonical link,
\* the content of an og:url meta, None for any other token
UrlSource(token) ==
    IF token.kind = "start" /\ token.tag = "link" /\ AttrValue(token.attr_seq, "rel") = "canonical"
    THEN AttrValue(token.attr_seq, "href")
    ELSE IF token.kind = "start" /\ token.tag = "meta" /\ AttrValue(token.attr_seq, "property") = "og:url"
    THEN AttrValue(token.attr_seq, "content")
    ELSE None

\* C12: a step that processes a canonical link with an href (or an og:url meta
\* with content) while neither url nor base_url is recorded sets both to that
\* value as it is; and no step changes url or base_url once it is recorded
C12_UrlIsFirstWriter ==
    [][/\ (pc = "tokenparse_html" /\ pc' = "tokenparse_html" /\ start' # start
              /\ UrlSource(tokens[start + 1]) # None /\ ~Has(info, "url") /\ ~Has(info, "base_url"))
             => (/\ Has(info', "url") /\ info'["url"] = UrlSource(tokens[start + 1])
                 /\ Has(info', "base_url") /\ info'["base_url"] = UrlSource(tokens[start + 1]))
       /\ Has(info, "url") => (Has(info', "url") /\ info'["url"] = info["url"])
       /\ Has(info, "base_url") => (Has(info', "base_url") /\ info'["base_url"] = info["base_url"])]_vars

\* a canonical link came first, an og:url meta and another canonical link
\* followed, and url and base_url are the href of the first
C12_Witness ==
    /\ pc = "returned"
    /\ Len(tokens) = 3
    /\ tokens[1].tag = "link" /\ UrlSource(tokens[1]) = "https://y.test/q"
    /\ tokens[2].tag = "meta" /\ UrlSource(tokens[2]) = "https://z.test/"
    /\ tokens[3].tag = "link" /\ UrlSource(tokens[3]) = CanonicalUrl
    /\ info["url"] = "https://y.test/q"
    /\ info["base_url"] = "https://y.test/q"

----------------------------------------------------------------------------
(* One Article node *)

\* the cursors, among those dispatched, of the ld+json scripts that have content
LdScriptCursors ==
    SelectSeq(dispatched, LAMBDA c :
        /\ tokens[c + 1].kind = "start" /\ tokens[c + 1].tag = "script"
        /\ AttrValue(tokens[c + 1].attr_seq, "type") = "application/ld+json"
        /\ tokens[c + 2].kind = "data")

\* the nodes the walk captured: the arrays decoded from those scripts, in order
CapturedNodes ==
    Flatten([i \in 1..Len(LdScriptCursors) |-> json_loads(tokens[LdScriptCursors[i] + 2].data).value.v])

\* the node is an Article with a string as headline
IsArticle(node) ==
    /\ "@type" \in DOMAIN node /\ node["@type"].t = "list"
    /\ \E i \in 1..Len(node["@type"].v) :
          node["@type"].v[i] \in {"Article", "http://schema.org/Article", "https://schema.org/Article"}
    /\ "headline" \in DOMAIN node /\ node["headline"].t = "str"

\* C13: after the walk of a document whose captured JSON-LD is one Article node
\* with a string headline H, no meta having set kind or title, main_content has
\* kind "article", headline H and title H, and its json_ld is the node as it was
\* decoded
C13_ArticleIsReconciled ==
    (pc = "returned" /\ Len(CapturedNodes) = 1 /\ IsArticle(CapturedNodes[1]) /\ Len(OgTitles) = 0)
        => /\ info["main_content"]["kind"] = "article"
           /\ info["main_content"]["headline"] = CapturedNodes[1]["headline"].v
           /\ info["main_content"]["title"] = CapturedNodes[1]["headline"].v
           /\ info["main_content"]["json_ld"] = CapturedNodes[1]

----------------------------------------------------------------------------
(* The document type declaration *)

\* the least index from i on whose byte is (or is not, when member is FALSE)
\* in S, and Len(buffer) + 1 when there is none
Least(i, S, member) ==
    CHOOSE j \in i..(Len(buffer) + 1) :
        /\ j > Len(buffer) \/ ((buffer[j] \in S) <=> member)
        /\ \A k \in i..(j - 1) : (buffer[k] \in S) <=> ~member

\* where the document type name begins: after "<!doctype" and the whitespace
NameStart == Least(Len(DoctypeLiteral) + 1, {9, 10, 12, 13, 32}, FALSE)

\* where it ends: at the first whitespace byte or ">"
NameEnd == Least(NameStart, {9, 10, 12, 13, 32, 62}, TRUE)

\* "<!doctype", at least one whitespace byte, a non-empty name
HasDoctypeName ==
    BeginsWithDoctype /\ NameStart > Len(DoctypeLiteral) + 1 /\ NameEnd > NameStart

\* C14: for a buffer of "<!doctype", whitespace and a non-empty name, a byte
\* other than ">" directly after the name makes parse_bytes fail with
\* UnexpectedDataError and return nothing; the name is accepted, and recorded,
\* only when ">" directly follows it
C14_NameEndsWithGt ==
    (pc # "parse_bytes" /\ HasDoctypeName)
        => /\ (NameEnd <= Len(buffer) /\ buffer[NameEnd] # 62)
                 => (pc = "aborted" /\ exc = "UnexpectedDataError")
           /\ pc # "aborted"
                 => /\ NameEnd <= Len(buffer) /\ buffer[NameEnd] = 62
                    /\ info["document_type_name"] = decode(SubSeq(buffer, NameStart, NameEnd - 1))

\* "<!doctype html >" has been rejected
C14_Witness ==
    /\ pc = "aborted" /\ exc = "UnexpectedDataError"
    /\ buffer = DoctypeLiteral \o <<32, 104, 116, 109, 108, 32, 62>>
    /\ HasDoctypeName /\ buffer[NameEnd] = 32

----------------------------------------------------------------------------
(* The end of the stream inside an element *)

\* the token at cursor i opens a style, title or script element and is the last
\* token of the stream
OpensAtEnd(i) ==
    /\ i + 1 = Len(tokens)
    /\ tokens[i + 1].kind = "start"
    /\ tokens[i + 1].tag \in {"style", "title", "script"}

\* the number of entries of errors
ErrorCount(inf) == IF Has(inf, "errors") THEN Len(inf["errors"]) ELSE 0

----------------------------------------------------------------------------
(* The end of the stream inside a noscript region *)

\* the token at cursor i opens a noscript region
OpensNoscript(i) ==
    i < Len(tokens) /\ tokens[i + 1].kind = "start" /\ tokens[i + 1].tag = "noscript"

\* C16: a noscript region that was dispatched and returned met its closing
\* tag, and a walk whose cursor is at a noscript region that is not closed before
\* the end of the stream has aborted with UnexpectedEndOfFileError
C16_UnterminatedNoscript ==
    /\ \A i \in 1..Len(dispatched) :
           OpensNoscript(dispatched[i]) => Closes(dispatched[i] + 2, 1)
    /\ (HtmlPath /\ pc \in {"aborted", "returned"} /\ OpensNoscript(start) /\ ~Closes(start + 2, 1))
           => (pc = "aborted" /\ exc = "UnexpectedEndOfFileError")

----------------------------------------------------------------------------
(* Where a script is recorded *)

\* the token at cursor i opens a script element
OpensScript(i) ==
    i < Len(tokens) /\ tokens[i + 1].kind = "start" /\ tokens[i + 1].tag = "script"

\* the script element opened at cursor i has content: a data token follows
HasContent(i) == i + 2 <= Len(tokens) /\ tokens[i + 2].kind = "data"

Scripts(inf) == Get(Get(inf, "html", EmptyDict), "scripts", EmptyList)

JsonLd(inf) == Get(inf, "json_ld", EmptyList)

\* C17: a step that extracts a script element either appends the elements of
\* the decoded array to json_ld, in order, and leaves html.scripts alone (type
\* exactly application/ld+json, with content), or appends one descriptor with the
\* element's type and content to html.scripts and leaves json_ld alone
C17_ScriptIsRoutedOnce ==
    [][(pc = "tokenparse_html" /\ OpensScript(start) /\ dispatched' # dispatched)
           => IF AttrValue(tokens[start + 1].attr_seq, "type") = "application/ld+json"
                 /\ HasContent(start)
              THEN /\ JsonLd(info') = JsonLd(info) \o json_loads(tokens[start + 2].data).value.v
                   /\ Scripts(info') = Scripts(info)
              ELSE /\ Len(Scripts(info')) = Len(Scripts(info)) + 1
                   /\ SubSeq(Scripts(info'), 1, Len(Scripts(info))) = Scripts(info)
                   /\ LET script == Scripts(info')[Len(Scripts(info'))]
                      IN  /\ Has(script, "content") <=> HasContent(start)
                          /\ HasContent(start) => script["content"] = tokens[start + 2].data
                          /\ Has(script, "type")
                                <=> AttrValue(tokens[start + 1].attr_seq, "type") # None
                   /\ JsonLd(info') = JsonLd(info)
                   /\ Has(info', "json_ld") <=> Has(info, "json_ld")]_vars

\* a walk has returned with a two-node ld+json script in json_ld and another
\* script in html.scripts
C17_Witness ==
    /\ pc = "returned"
    /\ Len(JsonLd(info)) = 2
    /\ Len(Scripts(info)) = 1
    /\ Len(dispatched) = 2

----------------------------------------------------------------------------
(* main_content.description *)

\* the contents of the description and og:description meta elements
\* dispatched, in order
MetaDescriptions ==
    LET metas == SelectSeq(dispatched, LAMBDA c :
                     /\ tokens[c + 1].kind = "start" /\ tokens[c + 1].tag = "meta"
                     /\ AttrValue(tokens[c + 1].attr_seq, "name") \in {"description", "og:description"}
                     /\ AttrValue(tokens[c + 1].attr_seq, "content") # None)
    IN  [i \in 1..Len(metas) |-> AttrValue(tokens[metas[i] + 1].attr_seq, "content")]

\* json_ld holds exactly one node, and its description is a string
DescriptionReconciled ==
    /\ Len(JsonLd(info)) = 1
    /\ Has(info["json_ld"][1], "description")
    /\ info["json_ld"][1]["description"].t = "str"

\* the description of the returned record is that of the first description
\* meta, else that of the single JSON-LD node, else there is none
FinalDescription ==
    IF Len(MetaDescriptions) > 0
    THEN MainContent(info)["description"] = [text |-> MetaDescriptions[1]]
    ELSE IF DescriptionReconciled
    THEN MainContent(info)["description"] = [text |-> info["json_ld"][1]["description"].v]
    ELSE ~Has(MainContent(info), "description")

\* C18: no step changes main_content.description once it is set, neither a
\* later meta element nor the reconciliation pass; so the returned description
\* is the first meta description if the document has one, wherever its JSON-LD
\* script stands, and the JSON-LD description only without one
C18_DescriptionIsFirstWriter ==
    [][/\ Has(MainContent(info), "description")
            => /\ Has(MainContent(info'), "description")
               /\ MainContent(info')["description"] = MainContent(info)["description"]
       /\ pc' = "returned" => FinalDescription']_vars

\* a JSON-LD script with a description came before two description metas, and
\* the returned description is that of the first meta
C18_Witness ==
    /\ pc = "returned"
    /\ DescriptionReconciled
    /\ Len(MetaDescriptions) = 2
    /\ MetaDescriptions[1] # MetaDescriptions[2]
    /\ OpensScript(dispatched[Len(dispatched) - 2])
    /\ MainContent(info)["description"] = [text |-> MetaDescriptions[1]]

----------------------------------------------------------------------------
(* The precedence of main_content.title *)

\* C19: the title of the returned record is the content of the last og:title
\* meta when the document has one; else the headline of the single JSON-LD node
\* when that is a string; else html.title when a title element set it; else
\* there is none
C19_TitlePrecedence ==
    pc = "returned"
        => IF Len(OgTitles) > 0
           THEN MainContent(info)["title"] = OgTitles[Len(OgTitles)]
           ELSE IF HeadlineReconciled
           THEN MainContent(info)["title"] = info["json_ld"][1]["headline"].v
           ELSE IF Has(Get(info, "html", EmptyDict), "title")
           THEN MainContent(info)["title"] = info["html"]["title"]
           ELSE ~Has(MainContent(info), "title")

\* two og:title metas came before a title element, and the returned title
\* is the content of the second meta
C19_Witness ==
    /\ pc = "returned"
    /\ Len(OgTitles) = 2
    /\ OgTitles[1] # OgTitles[2]
    /\ Len(TitleCursors) = 1
    /\ TitleCursors[1] = dispatched[Len(dispatched)]
    /\ info["html"]["title"] # OgTitles[2]
    /\ MainContent(info)["title"] = OgTitles[2]

----------------------------------------------------------------------------
(* The cursors on their own *)

\* buffers of bytes: short ones, and document type declarations
CursorBuffers ==
    SeqsUpTo(TailBytes, MaxTail)
        \cup {DoctypeLiteral \o t : t \in DoctypeTails}
        \cup {SubSeq(DoctypeLiteral, 1, k) : k \in 1..Len(DoctypeLiteral)}

\* the tokens of style elements and noscript regions
CursorTokens ==
    {StartTag("style", << >>), Data("x"), EndTag("style"),
     StartTag("noscript", << >>), EndTag("noscript")}

\* ParseState(buffer, 0, len(buffer)) of parse_bytes and
\* TokenParseState(tokens, 0, len(tokens)) of strparse_html; args holds end
InitCursor ==
    /\ \/ \E buf \in CursorBuffers :
              buffer = buf /\ tokens = << >> /\ pc = "ParseState" /\ args = <<Len(buf)>>
       \/ \E toks \in SeqsUpTo(CursorTokens, MaxTokens) :
              buffer = << >> /\ tokens = toks /\ pc = "TokenParseState" /\ args = <<Len(toks)>>
    /\ start = 0
    /\ info = EmptyDict
    /\ exc = "none"
    /\ dispatched = << >>
    /\ ret = << >>

\* the cursor moves to where a function left it; ret is the function and its value
CursorResult(name, value, e, data) ==
    /\ ret' = <<name, value>>
    /\ exc' = e
    /\ start' = data.start
    /\ args' = <<data.end>>
    /\ UNCHANGED <<pc, info, dispatched>>

CursorPeekchar ==
    /\ pc = "ParseState"
    /\ LET data == ParseState(buffer, start, args[1])
       IN  CursorResult("peekchar", peekchar(data), "none", data) /\ buffer' = data.buffer
    /\ UNCHANGED tokens

CursorSkipchar ==
    /\ pc = "ParseState"
    /\ LET r == skipchar(ParseState(buffer, start, args[1]))
       IN  CursorResult("skipchar", NoByte, r.exc, r.data) /\ buffer' = r.data.buffer
    /\ UNCHANGED tokens

\* the functions of the preamble that move the byte cursor
CursorParse ==
    /\ pc = "ParseState"
    /\ LET data == ParseState(buffer, start, args[1])
       IN  \E r \in {parse_expectnc(data, DoctypeLiteral), parse_expect(data, <<62>>),
                     parse_ascii_whitespace(data)} \cup
                    {[exc |-> p.exc, data |-> p.data] : p \in {parse_sgml_doctype(data, EmptyDict)}} :
               CursorResult("parse", NoByte, r.exc, r.data) /\ buffer' = r.data.buffer
    /\ UNCHANGED tokens

CursorPeektoken ==
    /\ pc = "TokenParseState"
    /\ LET data == TokenParseState(tokens, start, args[1])
       IN  CursorResult("peektoken", peektoken(data), "none", data) /\ tokens' = data.buffer
    /\ UNCHANGED buffer

CursorSkiptoken ==
    /\ pc = "TokenParseState"
    /\ LET r == skiptoken(TokenParseState(tokens, start, args[1]))
       IN  CursorResult("skiptoken", NoToken, r.exc, r.data) /\ tokens' = r.data.buffer
    /\ UNCHANGED buffer

\* one iteration of the loop of tokenparse_html, for the cursor it leaves
CursorWalk ==
    /\ pc = "TokenParseState"
    /\ start < args[1]
    /\ LET r == tokenparse_html_toplevel(TokenParseState(tokens, start, args[1]), EmptyDict)
       IN  CursorResult("tokenparse_html_toplevel", NoToken, r.exc, r.data) /\ tokens' = r.data.buffer
    /\ UNCHANGED buffer

NextCursor ==
    \/ CursorPeekchar \/ CursorSkipchar \/ CursorParse
    \/ CursorPeektoken \/ CursorSkiptoken \/ CursorWalk

SpecCursor == InitCursor /\ [][NextCursor]_vars

\* the sequence the cursor is on
CursorSequence == IF pc = "ParseState" THEN buffer ELSE tokens

\* 0 <= start <= end <= the length of the sequence
CursorInRange == 0 <= start /\ start <= args[1] /\ args[1] <= Len(CursorSequence)

\* C20: a cursor keeps 0 <= start <= end <= length, whatever functions of the
\* parser moved it; skipchar and skiptoken give the cursor with start one
\* greater on the same sequence and end, or raise UnexpectedEndOfFileError when
\* start = end; peekchar and peektoken give the element at start, or none when
\* start = end, and leave the cursor as it was
C20_CursorStaysInRange ==
    [][/\ CursorInRange /\ CursorInRange'
       /\ buffer' = buffer /\ tokens' = tokens /\ args' = args
       /\ ret'[1] \in {"skipchar", "skiptoken"}
            => IF start = args[1]
               THEN exc' = "UnexpectedEndOfFileError" /\ start' = start
               ELSE exc' = "none" /\ start' = start + 1
       /\ ret'[1] = "peekchar"
            => /\ start' = start /\ exc' = "none"
               /\ ret'[2] = IF start = args[1] THEN NoByte ELSE buffer[start + 1]
       /\ ret'[1] = "peektoken"
            => /\ start' = start /\ exc' = "none"
               /\ ret'[2] = IF start = args[1] THEN NoToken ELSE tokens[start + 1]]_vars

\* a token cursor at its end, which skiptoken did not move
C20_Witness ==
    /\ pc = "TokenParseState"
    /\ Len(tokens) = 2
    /\ start = Len(tokens)
    /\ ret = <<"skiptoken", NoToken>>
    /\ exc = "UnexpectedEndOfFileError"

----------------------------------------------------------------------------
(* The lists that only grow *)

\* the list of the record under the key, empty when the key is absent
ListOf(inf, key) == Get(inf, key, EmptyList)

\* the list before is a prefix of the list after
IsPrefix(before, after) ==
    /\ Len(before) <= Len(after)
    /\ \A i \in 1..Len(before) : after[i] = before[i]

\* C21: every walker step and the reconciliation pass leave the previous
\* contents of errors, unknown_tokens and json_ld as an unchanged prefix of
\* the current contents
C21_ListsAreAppendOnly ==
    [][\A key \in {"errors", "unknown_tokens", "json_ld"} :
           IsPrefix(ListOf(info, key), ListOf(info', key))]_vars

----------------------------------------------------------------------------
(* url and base_url together *)

\* the cursors, among those dispatched, of the tokens that name a URL of the
\* document
UrlCursors == SelectSeq(dispatched, LAMBDA c : UrlSource(tokens[c + 1]) # None)

\* C22: in every state url is recorded exactly when base_url is, both with
\* the URL of the first canonical link with an href or og:url meta with content
\* that was dispatched, and neither is recorded before one was
C22_UrlAndBaseUrlAgree ==
    /\ Has(info, "url") <=> Has(info, "base_url")
    /\ IF Len(UrlCursors) > 0
       THEN /\ Has(info, "url") /\ info["url"] = UrlSource(tokens[UrlCursors[1] + 1])
            /\ Has(info, "base_url") /\ info["base_url"] = info["url"]
       ELSE ~Has(info, "url")

\* an og:url meta came first and two canonical links with other hrefs
\* followed; url and base_url are the content of the meta
C22_Witness ==
    /\ pc = "returned"
    /\ Len(UrlCursors) = 3
    /\ tokens[UrlCursors[1] + 1].tag = "meta"
    /\ tokens[UrlCursors[2] + 1].tag = "link"
    /\ UrlSource(tokens[UrlCursors[2] + 1]) # UrlSource(tokens[UrlCursors[1] + 1])
    /\ info["url"] = "https://z.test/"
    /\ info["base_url"] = "https://z.test/"

----------------------------------------------------------------------------
(* Inside a noscript region *)

\* noscript regions around the tokens the top level has rules for
NoscriptTokens ==
    {StartTag("noscript", << >>), StartTag("noscript", <<<<"class", "n">>>>), EndTag("noscript"),
     StartTag("link", <<<<"rel", "canonical">>, <<"href", CanonicalUrl>>>>),
     StartTag("meta", <<<<"name", "description">>, <<"content", "d">>>>),
     StartTag("title", << >>), StartTag("script", << >>), Comment("c"), Data("x")}

InitNoscript == StartOn(NoscriptTokens)

SpecNoscript == InitNoscript /\ [][Next]_vars

IsNoscript(token, kind) == token.kind = kind /\ token.tag = "noscript"

RECURSIVE MatchingEnd(_, _)
\* the index of the end noscript token that closes the region entered before
\* token i with depth open noscript elements
MatchingEnd(i, depth) ==
    IF IsNoscript(tokens[i], "end")
    THEN IF depth = 1 THEN i ELSE MatchingEnd(i + 1, depth - 1)
    ELSE IF IsNoscript(tokens[i], "start") THEN MatchingEnd(i + 1, depth + 1)
    ELSE MatchingEnd(i + 1, depth)

\* a token as an opaque node
OpaqueNode(token) ==
    [kind |-> token.kind, tag |-> token.tag, attrs |-> token.attr_seq, data |-> token.data]

RECURSIVE RegionContents(_)
RECURSIVE NoscriptNode(_)
\* the nodes of the tokens from token i up to the end noscript of their level:
\* a node per nested region, an opaque node per other token, in document order
RegionContents(i) ==
    IF IsNoscript(tokens[i], "end") THEN << >>
    ELSE IF IsNoscript(tokens[i], "start")
    THEN <<NoscriptNode(i)>> \o RegionContents(MatchingEnd(i + 1, 1) + 1)
    ELSE <<OpaqueNode(tokens[i])>> \o RegionContents(i + 1)

\* the node of the region that token i opens
NoscriptNode(i) ==
    IF Len(tokens[i].attr_seq) > 0
    THEN [kind |-> "noscript", attrs |-> tokens[i].attr_seq, contents |-> RegionContents(i + 1)]
    ELSE [kind |-> "noscript", contents |-> RegionContents(i + 1)]

\* the record after differs from the record before in html.content alone,
\* which gained the node
OnlyContentGained(before, after, node) ==
    /\ DOMAIN after = DOMAIN before \cup {"html"}
    /\ \A k \in DOMAIN before \ {"html"} : after[k] = before[k]
    /\ LET h == Get(before, "html", EmptyDict)
       IN  /\ DOMAIN after["html"] = DOMAIN h \cup {"content"}
           /\ \A k \in DOMAIN h \ {"content"} : after["html"][k] = h[k]
           /\ after["html"]["content"] = Get(h, "content", EmptyList) \o <<node>>

\* C23: a step at a start noscript token that returns took the whole
\* region, up to its matching end noscript, in one dispatch: the cursor is behind
\* the closing token, the region's tokens are the contents of one noscript node,
\* one opaque node per token and one node per nested region, in order, and
\* the only change of the record is that node appended to html.content
C23_RegionIsOpaque ==
    [][(pc = "tokenparse_html" /\ start < Len(tokens) /\ IsNoscript(tokens[start + 1], "start")
           /\ dispatched' # dispatched)
          => /\ Closes(start + 2, 1)
             /\ start' = MatchingEnd(start + 2, 1)
             /\ dispatched' = Append(dispatched, start)
             /\ OnlyContentGained(info, info', NoscriptNode(start + 1))]_vars

\* a region holding a canonical link and a description meta has been
\* returned as one node of two opaque nodes, and no url, description, link or
\* meta was recorded
C23_Witness ==
    /\ pc = "returned"
    /\ Len(tokens) = 4
    /\ IsNoscript(tokens[1], "start")
    /\ tokens[2].tag = "link"
    /\ tokens[3].tag = "meta"
    /\ IsNoscript(tokens[4], "end")
    /\ dispatched = <<0>>
    /\ DOMAIN info = {"document_type_name", "html"}
    /\ DOMAIN info["html"] = {"content"}
    /\ info["html"]["content"] = <<[kind |-> "noscript", contents |-> <<OpaqueNode(tokens[2]), OpaqueNode(tokens[3])>>]>>

----------------------------------------------------------------------------
(* The opening token of an element that failed *)

\* C24: a walker step on a title, style or script element whose next token
\* deviates from the expected shape returns one token further with one entry
\* more in errors and the record of the opening token appended to
\* unknown_tokens, and with html.title, html.scripts, html.styles and json_ld
\* as they were
C24_OpeningTokenIsUnknown ==
    [][(pc = "tokenparse_html" /\ DeviatesAt(start))
          => /\ dispatched' = Append(dispatched, start)
             /\ start' = start + 1
             /\ Len(ListOf(info', "errors")) = Len(ListOf(info, "errors")) + 1
             /\ ListOf(info', "unknown_tokens")
                    = ListOf(info, "unknown_tokens") \o <<OpaqueNode(tokens[start + 1])>>
             /\ Captured(info') = Captured(info)
             /\ JsonLd(info') = JsonLd(info)]_vars

====
